---- MODULE Spec2Model ----
(***************************************************************************)
(* Model of the Lidl knit-grid renderer: the colour mathematics of         *)
(* lib/palette.ts, the Sobel edge detector of lib/mapping.ts and the       *)
(* two-pass frame renderer of lib/render.ts.                               *)
(*                                                                         *)
(* Numbers.  A colour channel is a JavaScript number; here it is an        *)
(* integer count of 1/One, with One = 255 * 3200, so that every 8-bit      *)
(* sample b/255 (= 3200 * b) and every dither offset                       *)
(* (t/16 - 0.5) * amount * 0.1 with amount in whole percent                *)
(* (= 51 * (t - 8) * amount) is exact.  Multipliers (contrast,             *)
(* saturation, dither, edgeCrispness, paletteMix) are whole percent.       *)
(* Linear-light values are counts of 1/LinOne.  The luminance sum of       *)
(* applySaturation and the percent division of applyContrast round to the  *)
(* nearest unit below (the code rounds to the nearest double).             *)
(***************************************************************************)
EXTENDS Integers, Sequences, FiniteSets, TLC

One == 255 * 3200
LinOne == 100 * 100

Abs(n) == IF n < 0 THEN -n ELSE n
Max(a, b) == IF a > b THEN a ELSE b
Min(a, b) == IF a < b THEN a ELSE b

\* floor(a / b) for b > 0 (TLA+ \div already floors)
Floor(a, b) == a \div b

\* the channel value b / 255 of an 8-bit sample b
Byte(b) == 3200 * b

\* Math.round(c * 255) for a channel c
Round255(c) == (c + 1600) \div 3200

RGBOfBytes(r, g, b) == <<Byte(r), Byte(g), Byte(b)>>

----------------------------------------------------------------------------
(* lib/palette.ts *)

LIDL_COLORS ==
    [ blueRoyal  |-> RGBOfBytes(33, 81, 169),
      navy       |-> RGBOfBytes(11, 35, 96),
      yellow     |-> RGBOfBytes(255, 233, 51),
      yellowSoft |-> RGBOfBytes(251, 235, 129),
      blueMid    |-> RGBOfBytes(60, 136, 203),
      blue       |-> RGBOfBytes(18, 69, 171),
      blueDeep   |-> RGBOfBytes(15, 38, 92),
      blueLight  |-> RGBOfBytes(51, 136, 204),
      red        |-> RGBOfBytes(227, 30, 36),
      green      |-> RGBOfBytes(29, 107, 43),
      cream      |-> RGBOfBytes(238, 232, 213),
      charcoal   |-> RGBOfBytes(64, 67, 72) ]

LidlColorValues == { LIDL_COLORS[n] : n \in DOMAIN LIDL_COLORS }

ACTIVE_PALETTE ==
    << RGBOfBytes(0, 82, 176),
       RGBOfBytes(1, 36, 100),
       RGBOfBytes(255, 242, 2) >>

PaletteMembers == { ACTIVE_PALETTE[i] : i \in DOMAIN ACTIVE_PALETTE }

\* srgbToLinear at the 256 8-bit sample points k/255, in 1/LinOne
SrgbKnots ==
 << 0, 3, 6, 9, 12, 15, 18, 21, 24, 27, 30, 33, 37, 40, 44, 48,
    52, 56, 60, 65, 70, 75, 80, 86, 91, 97, 103, 110, 116, 123, 130, 137,
    144, 152, 160, 168, 176, 185, 194, 203, 212, 222, 232, 242, 252, 262, 273, 284,
    296, 307, 319, 331, 343, 356, 369, 382, 395, 409, 423, 437, 452, 467, 482, 497,
    513, 529, 545, 561, 578, 595, 612, 630, 648, 666, 685, 704, 723, 742, 762, 782,
    802, 823, 844, 865, 887, 908, 931, 953, 976, 999, 1022, 1046, 1070, 1095, 1119, 1144,
    1170, 1195, 1221, 1248, 1274, 1301, 1329, 1356, 1384, 1413, 1441, 1470, 1500, 1529, 1559, 1590,
    1620, 1651, 1683, 1714, 1746, 1779, 1812, 1845, 1878, 1912, 1946, 1981, 2016, 2051, 2086, 2122,
    2159, 2195, 2232, 2270, 2307, 2346, 2384, 2423, 2462, 2502, 2542, 2582, 2623, 2664, 2705, 2747,
    2789, 2831, 2874, 2918, 2961, 3005, 3050, 3095, 3140, 3185, 3231, 3278, 3325, 3372, 3419, 3467,
    3515, 3564, 3613, 3663, 3712, 3763, 3813, 3864, 3916, 3968, 4020, 4072, 4125, 4179, 4233, 4287,
    4342, 4397, 4452, 4508, 4564, 4621, 4678, 4735, 4793, 4851, 4910, 4969, 5029, 5089, 5149, 5210,
    5271, 5333, 5395, 5457, 5520, 5583, 5647, 5711, 5776, 5841, 5906, 5972, 6038, 6105, 6172, 6240,
    6308, 6376, 6445, 6514, 6584, 6654, 6724, 6795, 6867, 6939, 7011, 7084, 7157, 7231, 7305, 7379,
    7454, 7529, 7605, 7682, 7758, 7835, 7913, 7991, 8070, 8148, 8228, 8308, 8388, 8469, 8550, 8632,
    8714, 8796, 8879, 8963, 9047, 9131, 9216, 9301, 9387, 9473, 9560, 9647, 9734, 9823, 9911, 10000 >>

\* c <= 0.04045 ? c / 12.92 : Math.pow((c + 0.055) / 1.055, 2.4).
\* Below 0 the linear branch is exact (LinOne / (12.92 * One) = 125 / 131784);
\* inside [0, 1] the value is interpolated between the two neighbouring
\* 8-bit knots; above 1 the last segment is continued.
srgbToLinear(c) ==
    IF c < 0 THEN (c * 125) \div 131784
    ELSE LET k == Min(c \div 3200, 254)
             lo == SrgbKnots[k + 1]
             hi == SrgbKnots[k + 2]
         IN  lo + ((hi - lo) * (c - 3200 * k)) \div 3200

toLinear(rgb) == <<srgbToLinear(rgb[1]), srgbToLinear(rgb[2]), srgbToLinear(rgb[3])>>

\* The square of the Euclidean distance in linear space.  The code returns
\* its square root; nearestBrandColor only compares distances with <, and
\* the root is strictly increasing on these integers.
colorDistance(a, b) ==
    LET aLin == toLinear(a)
        bLin == toLinear(b)
        dr == aLin[1] - bLin[1]
        dg == aLin[2] - bLin[2]
        db == aLin[3] - bLin[3]
    IN  dr * dr + dg * dg + db * db

\* the loop of nearestBrandColor after the first i palette entries:
\* <<nearest, minDist>>, minDist = -1 standing for Infinity
RECURSIVE NearestScan(_, _)
NearestScan(rgb, i) ==
    IF i = 0 THEN <<ACTIVE_PALETTE[1], -1>>
    ELSE LET prev == NearestScan(rgb, i - 1)
             color == ACTIVE_PALETTE[i]
             dist == colorDistance(rgb, color)
         IN  IF prev[2] = -1 \/ dist < prev[2]
             THEN <<color, dist>>
             ELSE prev

\* variant: the scan runs over the values of LIDL_COLORS, the table the tests
\* compare against, instead of ACTIVE_PALETTE
nearestBrandColorOverLidl(rgb) ==
    CHOOSE c \in LidlColorValues :
        \A d \in LidlColorValues : colorDistance(rgb, c) <= colorDistance(rgb, d)

\* variant: the comparison is dist > minDist, which never holds against
\* Infinity, so the initial entry is returned
nearestBrandColorFlipped(rgb) == ACTIVE_PALETTE[1]

nearestBrandColor(rgb) == NearestScan(rgb, Len(ACTIVE_PALETTE))[1]

\* variant: the blend the doc comment describes (0 = original, 1 = brand colour)
applyPaletteMixBlend(rgb, mix) ==
    LET n == nearestBrandColor(rgb)
    IN  << rgb[1] + ((n[1] - rgb[1]) * mix) \div 100,
           rgb[2] + ((n[2] - rgb[2]) * mix) \div 100,
           rgb[3] + ((n[3] - rgb[3]) * mix) \div 100 >>

applyPaletteMix(rgb, mix) == nearestBrandColor(rgb)

BAYER_4X4 ==
    << 0, 8, 2, 10,
       12, 4, 14, 6,
       3, 11, 1, 9,
       15, 7, 13, 5 >>

\* variant: the matrix is read column by column
bayer4Transposed(x, y) ==
    LET bx == x % 4
        by == y % 4
    IN  BAYER_4X4[bx * 4 + by + 1]

\* the threshold in sixteenths
bayer4(x, y) ==
    LET bx == x % 4
        by == y % 4
    IN  BAYER_4X4[by * 4 + bx + 1]

Clamp01(v) == Max(0, Min(One, v))

\* variant: the scale 0.1 is missing
ditherValueUnscaled(amount, x, y) == 510 * (bayer4(x, y) - 8) * amount

\* (threshold - 0.5) * amount * 0.1 = (t - 8) / 16 * amount / 100 / 10
ditherValue(amount, x, y) == 51 * (bayer4(x, y) - 8) * amount

\* variant: the fast path tests amount === 0 only
applyDitherZeroOnly(rgb, amount, x, y) ==
    IF amount = 0 THEN rgb
    ELSE LET d == ditherValue(amount, x, y)
         IN  <<Clamp01(rgb[1] + d), Clamp01(rgb[2] + d), Clamp01(rgb[3] + d)>>

applyDither(rgb, amount, x, y) ==
    IF amount <= 0 THEN rgb
    ELSE LET d == ditherValue(amount, x, y)
         IN  <<Clamp01(rgb[1] + d), Clamp01(rgb[2] + d), Clamp01(rgb[3] + d)>>

ContrastChannel(v, contrast) == ((v - One \div 2) * contrast) \div 100 + One \div 2

applyContrast(rgb, contrast) ==
    IF contrast = 100 THEN rgb
    ELSE << Clamp01(ContrastChannel(rgb[1], contrast)),
            Clamp01(ContrastChannel(rgb[2], contrast)),
            Clamp01(ContrastChannel(rgb[3], contrast)) >>

\* 0.2126 r + 0.7152 g + 0.0722 b
SatLuma(rgb) ==
    (1063 * rgb[1]) \div 5000 + (447 * rgb[2]) \div 625 + (361 * rgb[3]) \div 5000

SatChannel(v, luma, saturation) == luma + ((v - luma) * saturation) \div 100

applySaturation(rgb, saturation) ==
    IF saturation = 100 THEN rgb
    ELSE LET luma == SatLuma(rgb)
         IN  << Clamp01(SatChannel(rgb[1], luma, saturation)),
                Clamp01(SatChannel(rgb[2], luma, saturation)),
                Clamp01(SatChannel(rgb[3], luma, saturation)) >>

----------------------------------------------------------------------------
(* types.ts *)

DEFAULT_PARAMS ==
    [ stitchPx |-> 20, paletteMix |-> 100, dither |-> 30, contrast |-> 100,
      saturation |-> 100, edgeCrispness |-> 20, showGridLines |-> FALSE ]

PRESETS ==
    [ classic |-> [ stitchPx |-> 20, paletteMix |-> 100, dither |-> 30,
                    contrast |-> 110, saturation |-> 120, edgeCrispness |-> 20,
                    showGridLines |-> FALSE ],
      airy    |-> [ stitchPx |-> 24, paletteMix |-> 100, dither |-> 20,
                    contrast |-> 100, saturation |-> 100, edgeCrispness |-> 10,
                    showGridLines |-> FALSE ],
      quilted |-> [ stitchPx |-> 18, paletteMix |-> 100, dither |-> 35,
                    contrast |-> 115, saturation |-> 110, edgeCrispness |-> 20,
                    showGridLines |-> TRUE ] ]

----------------------------------------------------------------------------
(* lib/mapping.ts *)

\* luminance(r/255, g/255, b/255) of 8-bit samples, in 1/(255 * 10000)
luminance(r, g, b) == 2126 * r + 7152 * g + 722 * b

sobelX == << -1, 0, 1,
             -2, 0, 2,
             -1, 0, 1 >>

sobelY == << -1, -2, -1,
              0,  0,  0,
              1,  2,  1 >>

\* g * g as <<high, low>> in base 10^6 (g * g itself exceeds 32 bits)
Square(g) ==
    LET n == Abs(g)
        a == n \div 1000
        b == n % 1000
        m == 2 * a * b
    IN  << a * a + m \div 1000, (m % 1000) * 1000 + b * b >>

\* Math.sqrt(gx * gx + gy * gy) > 0.15, as gx^2 + gy^2 > (0.15 * 2550000)^2
\* = 146306 * 10^6 + 250000
MagnitudeOverThreshold(gx, gy) ==
    LET sx == Square(gx)
        sy == Square(gy)
        low == sx[2] + sy[2]
        hi == sx[1] + sy[1] + low \div 1000000
        lo == low % 1000000
    IN  hi > 146306 \/ (hi = 146306 /\ lo > 250000)

\* variant: a neighbour outside the grid reads as black instead of the
\* nearest cell inside
KernelLumaZeroPadded(data, width, height, x, y, kx, ky) ==
    LET px == x + kx
        py == y + ky
    IN  IF px < 0 \/ px > width - 1 \/ py < 0 \/ py > height - 1
        THEN 0
        ELSE LET s == data[py * width + px + 1]
             IN  luminance(s[1], s[2], s[3])

\* the luminance read by the kernel at offset (kx, ky) from cell (x, y);
\* data holds one <<r, g, b, a>> per cell, row-major
KernelLuma(data, width, height, x, y, kx, ky) ==
    LET px == x + kx
        py == y + ky
        clampedX == Max(0, Min(width - 1, px))
        clampedY == Max(0, Min(height - 1, py))
        s == data[clampedY * width + clampedX + 1]
    IN  luminance(s[1], s[2], s[3])

RECURSIVE SobelSum(_, _, _, _, _, _, _)
SobelSum(kernel, data, width, height, x, y, k) ==
    IF k = 0 THEN 0
    ELSE LET kx == ((k - 1) % 3) - 1
             ky == ((k - 1) \div 3) - 1
         IN  SobelSum(kernel, data, width, height, x, y, k - 1)
             + KernelLuma(data, width, height, x, y, kx, ky) * kernel[k]

\* edgeMap[y][x] is entry y * width + x + 1
detectEdges(data, width, height) ==
    [ j \in 1..(width * height) |->
        LET x == (j - 1) % width
            y == (j - 1) \div width
            gx == SobelSum(sobelX, data, width, height, x, y, 9)
            gy == SobelSum(sobelY, data, width, height, x, y, 9)
        IN  MagnitudeOverThreshold(gx, gy) ]

----------------------------------------------------------------------------
(* lib/sampler.ts *)

\* The 8-bit RGBA values a downscaled cell can take in this model: palette
\* yellow, palette navy just above the alpha cut, the background blue, a
\* nearly transparent yellow, and a blue on the blue/navy boundary.
Samples ==
    << <<255, 242, 2, 255>>,
       <<1, 36, 100, 13>>,
       <<0, 82, 176, 255>>,
       <<255, 242, 2, 12>>,
       <<0, 60, 145, 255>> >>

RECURSIVE Pow(_, _)
Pow(b, e) == IF e = 0 THEN 1 ELSE b * Pow(b, e - 1)

\* ctx.drawImage(image, 0, 0, cols, rows); ctx.getImageData(0, 0, cols, rows).
\* An image is a number whose four base-Len(Samples) digits are the samples
\* the browser's downscale yields, cell by cell (grids of more than four
\* cells repeat the four digits).
sampleImage(img, gridCols, gridRows) ==
    [ j \in 1..(gridCols * gridRows) |->
        Samples[((img \div Pow(Len(Samples), (j - 1) % 4)) % Len(Samples)) + 1] ]

getPixelFromImageData(data, x, y, width) ==
    LET s == data[y * width + x + 1]
    IN  <<Byte(s[1]), Byte(s[2]), Byte(s[3])>>

----------------------------------------------------------------------------
(* Bounds of the model *)

\* images are numbered 0..MaxImage
MaxImage == 624

\* test colours take each channel from k / ChannelSteps, k in -1..ChannelSteps+1
ChannelSteps == 4

\* cell coordinates handed to applyDither on its own are 0..MaxCoord
MaxCoord == 4

\* renderKnitFrame is followed on grids of at most MaxGrid x MaxGrid cells
MaxGrid == 3

\* the images of repeated calls and of direct sampleImage calls are numbered
\* 0..MaxRepeatImage
MaxRepeatImage == 24

Images == 0..MaxImage

\* canvas sizes in pixels (KnitCanvas passes min(width, height) of its container)
Sizes == {0, 3, 10, 12, 20, 40, 120}

\* updateParam(key, value) applied to the defaults, one key at a time
UpdatedParams ==
    { [DEFAULT_PARAMS EXCEPT !.stitchPx = 2],
      [DEFAULT_PARAMS EXCEPT !.stitchPx = 150],
      [DEFAULT_PARAMS EXCEPT !.paletteMix = 0],
      [DEFAULT_PARAMS EXCEPT !.edgeCrispness = 0],
      [DEFAULT_PARAMS EXCEPT !.edgeCrispness = 100],
      [DEFAULT_PARAMS EXCEPT !.dither = 0],
      [DEFAULT_PARAMS EXCEPT !.showGridLines = TRUE] }

ParamChoices ==
    {DEFAULT_PARAMS, PRESETS.classic, PRESETS.airy, PRESETS.quilted}
    \cup UpdatedParams

\* Math.random() in thousandths
RandomDraws == {0, 29, 30, 59, 60, 299, 300, 999}

ChannelSamples ==
    { k * (One \div ChannelSteps) : k \in (-1)..(ChannelSteps + 1) }

\* [0, 0.2118, 0.4980], the colour the fixed-point law is quoted for
NavyBlueExample == <<0, (2118 * (One \div 100)) \div 100, (4980 * (One \div 100)) \div 100>>

TestColors ==
    PaletteMembers \cup LidlColorValues \cup {NavyBlueExample}
    \cup { <<r, g, b>> : r \in ChannelSamples, g \in ChannelSamples, b \in ChannelSamples }

MixValues == {0, 50, 100}
ContrastValues == {50, 100, 110, 115, 150, 200}
SaturationValues == {0, 100, 110, 120, 200}
DitherValues == {-10, 0, 20, 30, 35, 100}

----------------------------------------------------------------------------
(* State *)

VARIABLES
    call,            \* the last direct call of a library function and its result
    pc,              \* where renderKnitFrame stands
    image,           \* renderKnitFrame's arguments
    params,
    size,
    cols,            \* its locals
    rows,
    sampledData,
    edgeMap,
    cellColors,      \* cellColors[y][x] is entry y * cols + x + 1
    colorCounts,     \* the Map, as <<key, count>> pairs in insertion order
    prominentColor,
    cell,            \* the loop position y * cols + x of the running pass
    ctx,             \* the draw calls issued on the canvas context, in order
    sampleCalls,     \* the number of sampleImage calls of this frame
    previous,        \* the call before this one, when the caller repeats a call
    store,           \* useKnitStore: image, videoFile, params, dirty, isAnimating
    mounted,         \* KnitCanvas has rendered and run its effects once
    committed,       \* the store values of the render whose effects ran last
    renderLoop,      \* the static render loop: its pending frame request and closure
    videoRef,        \* videoRef.current: the number of a video element, 0 for null
    animationFrameRef, \* animationFrameRef.current: whose request it holds, 0 for null
    videos,          \* the video elements created so far and their animate loops
    pendingImage,    \* loadImage is between setVideoFile and setImage
    lastRender,      \* what was drawn on the canvas last
    container,       \* min(width, height) of the container: 0, or 1 for any size above
    loads,           \* App.loadImage: the calls made, each with its file and stage
    appStore,        \* the store as App sees it: image, videoFile and params by value
    localStorage,    \* the item 'lidl-knit-params'
    processing,      \* App.processVideoFrames: the video, the frames and the promise
    exporting        \* exportMP4: the frames drawn, the recorder and the promise

renderVars == << pc, image, params, size, cols, rows, sampledData, edgeMap,
                 cellColors, colorCounts, prominentColor, cell, ctx, sampleCalls,
                 previous, store, mounted, committed, renderLoop, videoRef,
                 animationFrameRef, videos, pendingImage, lastRender,
                 container, loads, appStore, localStorage, processing,
                 exporting >>

vars == << call, pc, image, params, size, cols, rows, sampledData, edgeMap,
           cellColors, colorCounts, prominentColor, cell, ctx, sampleCalls,
           previous, store, mounted, committed, renderLoop, videoRef,
           animationFrameRef, videos, pendingImage, lastRender,
           container, loads, appStore, localStorage, processing, exporting >>

\* the state of the KnitCanvas component and of the store
knitVars == << store, mounted, committed, renderLoop, videoRef, animationFrameRef,
              videos, pendingImage, lastRender,
                 container >>

\* the state of App: its file loads, the store by value, the persisted
\* params, and the two export pipelines
appVars == << loads, appStore, localStorage, processing, exporting >>

\* create<KnitStore>: no image, no video, the loaded params, dirty.  params is
\* the number of updateParam / applyPreset calls so far, each of which makes
\* a new params object.
InitialStore ==
    [image |-> FALSE, videoFile |-> 0, params |-> 0, dirty |-> TRUE,
     isAnimating |-> FALSE]

NoRenderLoop == [pending |-> FALSE, dirty |-> FALSE, image |-> FALSE, params |-> 0]

NothingDrawn == [kind |-> "none", params |-> 0, video |-> 0]

\* no call came before
NoPrevious ==
    [called |-> FALSE, image |-> 0, params |-> DEFAULT_PARAMS, size |-> 0, ctx |-> <<>>]

NoColor == <<0, 0, 0>>

\* localStorage.getItem returns null
NoItem == [null |-> "null"]

\* the params objects that exist when the store module is loaded:
\* DEFAULT_PARAMS and the three members of PRESETS
SharedObjects == << DEFAULT_PARAMS, PRESETS.classic, PRESETS.airy, PRESETS.quilted >>

\* useKnitStore as App and the controls see it, before create() has run:
\* image and videoFile name the file they come from (0 for null); objects
\* are the params objects in memory and params is the index of the one the
\* store refers to
InitialAppStore ==
    [image |-> 0, videoFile |-> 0, created |-> FALSE, params |-> 1,
     objects |-> SharedObjects]

NotProcessing ==
    [phase |-> "idle", duration |-> [inf |-> FALSE, t |-> 0], frames |-> <<>>,
     frameCount |-> 0,
     seeking |-> -1, resolved |-> 0, result |-> <<>>]

NotExporting ==
    [phase |-> "idle", frames |-> 0, frameIndex |-> 0, drawn |-> <<>>,
     stops |-> 0, stoppedAfter |-> 0, recorder |-> "inactive", resolved |-> 0]

\* prominentColor = null
Null == <<>>

Init ==
    /\ call = [fn |-> "none", rgb |-> NoColor, arg |-> 0, x |-> 0, y |-> 0,
               data |-> <<>>, out |-> NoColor, again |-> NoColor]
    /\ pc = "idle"
    /\ image = 0
    /\ params = DEFAULT_PARAMS
    /\ size = 0
    /\ cols = 0
    /\ rows = 0
    /\ sampledData = <<>>
    /\ edgeMap = <<>>
    /\ cellColors = <<>>
    /\ colorCounts = <<>>
    /\ prominentColor = Null
    /\ cell = 0
    /\ ctx = <<>>
    /\ sampleCalls = 0
    /\ previous = NoPrevious
    /\ store = InitialStore
    /\ mounted = FALSE
    /\ committed = InitialStore
    /\ renderLoop = NoRenderLoop
    /\ videoRef = 0
    /\ animationFrameRef = 0
    /\ videos = <<>>
    /\ pendingImage = FALSE
    /\ lastRender = NothingDrawn
    /\ container = 1
    /\ loads = <<>>
    /\ appStore = InitialAppStore
    /\ localStorage = NoItem
    /\ processing = NotProcessing
    /\ exporting = NotExporting

----------------------------------------------------------------------------
(* Direct calls of the exported palette functions: each is pure, so one call *)
(* from the initial state stands for every call.  The guard stands before    *)
(* the quantifier so that a state after a call does not enumerate the inputs *)
(* again.                                                                    *)

\* nearestBrandColor(rgb), and the renderer's second quantization of the result
CallNearestBrandColor ==
    /\ call.fn = "none"
    /\ \E rgb \in TestColors :
          call' = [fn |-> "nearestBrandColor", rgb |-> rgb, arg |-> 0, x |-> 0, y |-> 0,
                   data |-> <<>>,
                   out |-> nearestBrandColor(rgb),
                   again |-> nearestBrandColor(nearestBrandColor(rgb))]
    /\ UNCHANGED renderVars

\* applyPaletteMix(rgb, mix), and the renderer's quantization of the result
CallApplyPaletteMix ==
    /\ call.fn = "none"
    /\ \E rgb \in TestColors, mix \in MixValues :
          call' = [fn |-> "applyPaletteMix", rgb |-> rgb, arg |-> mix, x |-> 0, y |-> 0,
                   data |-> <<>>,
                   out |-> applyPaletteMix(rgb, mix),
                   again |-> nearestBrandColor(applyPaletteMix(rgb, mix))]
    /\ UNCHANGED renderVars

CallApplyContrast ==
    /\ call.fn = "none"
    /\ \E rgb \in TestColors, contrast \in ContrastValues :
          call' = [fn |-> "applyContrast", rgb |-> rgb, arg |-> contrast, x |-> 0, y |-> 0,
                   data |-> <<>>,
                   out |-> applyContrast(rgb, contrast), again |-> NoColor]
    /\ UNCHANGED renderVars

CallApplySaturation ==
    /\ call.fn = "none"
    /\ \E rgb \in TestColors, saturation \in SaturationValues :
          call' = [fn |-> "applySaturation", rgb |-> rgb, arg |-> saturation,
                   x |-> 0, y |-> 0,
                   data |-> <<>>,
                   out |-> applySaturation(rgb, saturation), again |-> NoColor]
    /\ UNCHANGED renderVars

CallApplyDither ==
    /\ call.fn = "none"
    /\ \E rgb \in TestColors, amount \in DitherValues, x \in 0..MaxCoord, y \in 0..MaxCoord :
          call' = [fn |-> "applyDither", rgb |-> rgb, arg |-> amount, x |-> x, y |-> y,
                   data |-> <<>>,
                   out |-> applyDither(rgb, amount, x, y), again |-> NoColor]
    /\ UNCHANGED renderVars

PaletteNext ==
    \/ CallNearestBrandColor
    \/ CallApplyPaletteMix
    \/ CallApplyContrast
    \/ CallApplySaturation
    \/ CallApplyDither

PaletteSpec == Init /\ [][PaletteNext]_vars

----------------------------------------------------------------------------
(* Direct calls of bayer4, detectEdges and sampleImage *)

\* bayer4 is called on coordinates 0..MaxBayerCoord
MaxBayerCoord == 7

\* detectEdges is called on grids of 1..MaxEdgeDim columns and rows
MaxEdgeDim == 4

\* sampleImage is called with cols and rows in -1..MaxSampleDim
MaxSampleDim == 2

\* bayer4(x, y), and the reads one period to the right and one period down
CallBayer4 ==
    /\ call.fn = "none"
    /\ \E x \in 0..MaxBayerCoord, y \in 0..MaxBayerCoord :
          call' = [fn |-> "bayer4", rgb |-> NoColor, arg |-> 0, x |-> x, y |-> y,
                   data |-> <<>>,
                   out |-> bayer4(x, y),
                   again |-> <<bayer4(x + 4, y), bayer4(x, y + 4)>>]
    /\ UNCHANGED renderVars

EdgeTestBytes == { <<r, g, b>> : r \in {0, 128, 255}, g \in {0, 128, 255}, b \in {0, 128, 255} }

\* the sampled grids handed to detectEdges: every cell <<r, g, b, 255>>
\* (pattern 0); the same with a white first column (pattern 1); the same
\* with a transparent first column of the same r, g, b (pattern 2)
EdgeTestGrid(width, height, rgb, pattern) ==
    [ j \in 1..(width * height) |->
        IF (j - 1) % width = 0 /\ pattern = 1 THEN <<255, 255, 255, 255>>
        ELSE IF (j - 1) % width = 0 /\ pattern = 2 THEN <<rgb[1], rgb[2], rgb[3], 0>>
        ELSE <<rgb[1], rgb[2], rgb[3], 255>> ]

\* detectEdges(data, width, height)
CallDetectEdges ==
    /\ call.fn = "none"
    /\ \E width \in 1..MaxEdgeDim, height \in 1..MaxEdgeDim,
          rgb \in EdgeTestBytes, pattern \in 0..2 :
          call' = [fn |-> "detectEdges", rgb |-> rgb, arg |-> pattern,
                   x |-> width, y |-> height,
                   data |-> EdgeTestGrid(width, height, rgb, pattern),
                   out |-> detectEdges(EdgeTestGrid(width, height, rgb, pattern),
                                       width, height),
                   again |-> NoColor]
    /\ UNCHANGED renderVars

\* What sampleImage(image, cols, rows) does, lines 19-33.  The OffscreenCanvas
\* constructor takes unsigned sizes and throws a TypeError on a negative one;
\* on a canvas of zero width or height drawImage draws nothing and
\* getImageData(0, 0, cols, rows) throws an IndexSizeError, since an ImageData
\* has at least one row and one column.  Otherwise the ImageData of cols x
\* rows cells is returned.
sampleImageOutcome(img, gridCols, gridRows) ==
    IF gridCols < 0 \/ gridRows < 0
    THEN [error |-> "TypeError", data |-> <<>>]
    ELSE IF gridCols = 0 \/ gridRows = 0
    THEN [error |-> "IndexSizeError", data |-> <<>>]
    ELSE [error |-> "none", data |-> sampleImage(img, gridCols, gridRows)]

\* sampleImage(image, cols, rows)
CallSampleImage ==
    /\ call.fn = "none"
    /\ \E img \in 0..MaxRepeatImage,
          gridCols \in (-1)..MaxSampleDim, gridRows \in (-1)..MaxSampleDim :
          call' = [fn |-> "sampleImage", rgb |-> NoColor, arg |-> img,
                   x |-> gridCols, y |-> gridRows,
                   data |-> <<>>,
                   out |-> sampleImageOutcome(img, gridCols, gridRows),
                   again |-> NoColor]
    /\ UNCHANGED renderVars

LibraryNext ==
    \/ CallBayer4
    \/ CallDetectEdges
    \/ CallSampleImage

LibrarySpec == Init /\ [][LibraryNext]_vars

----------------------------------------------------------------------------
(* lib/glyphs.ts and lib/render.ts *)

BACKGROUND_COLOR == ACTIVE_PALETTE[1]

\* the components of `rgb(${Math.round(c[0] * 255)}, ...)`
CssRgb(c) == <<Round255(c[1]), Round255(c[2]), Round255(c[3])>>

\* drawGlyph(ctx, glyph, cx, cy, glyphSize) with ctx.fillStyle = style: the
\* square is one fillRect, the circle and the diamond are one path and one
\* fill.  x, y name the cell whose centre the glyph is drawn at.
drawGlyph(glyph, x, y, style) ==
    [ op |-> IF glyph = "square" THEN "fillRect" ELSE "fill",
      glyph |-> glyph, line |-> "none", style |-> style, x |-> x, y |-> y ]

\* variant: the lower cut of the stitch size is missing
stitchPxUnclampedBelow(p) == Min(100, p.stitchPx)

\* Math.max(4, Math.min(100, params.stitchPx))
stitchPx(p) == Max(4, Min(100, p.stitchPx))

\* variant: Math.ceil in place of Math.floor
GridSizeCeil(sz, p) == (sz + stitchPx(p) - 1) \div stitchPx(p)

\* Math.floor(size / stitchPx), for cols and for rows
GridSize(sz, p) == Floor(sz, stitchPx(p))

\* variant: the tolerance is 1 instead of 0.01
colorMatchLoose(c1, c2) ==
    /\ Abs(c1[1] - c2[1]) < One
    /\ Abs(c1[2] - c2[2]) < One
    /\ Abs(c1[3] - c2[3]) < One

\* |c1 - c2| < 0.01 on every channel
colorMatch(c1, c2) ==
    /\ Abs(c1[1] - c2[1]) * 100 < One
    /\ Abs(c1[2] - c2[2]) * 100 < One
    /\ Abs(c1[3] - c2[3]) * 100 < One

\* variant: the raw alpha byte is compared with 0.05
alphaBelowCutRawByte(a) == a * 100 < 5

\* alpha = data[pixelIndex + 3] / 255; alpha < 0.05
alphaBelowCut(a) == a * 100 < 5 * 255

\* the cell pipeline: contrast, saturation, dither, palette mix, quantization
finalColorOf(data, p, x, y, width) ==
    LET rgb == getPixelFromImageData(data, x, y, width)
        contrasted == applyContrast(rgb, p.contrast)
        saturated == applySaturation(contrasted, p.saturation)
        dithered == applyDither(saturated, p.dither, x, y)
        mixed == applyPaletteMix(dithered, p.paletteMix)
    IN  nearestBrandColor(mixed)

\* colorCounts.set(colorKey, (colorCounts.get(colorKey) || 0) + 1)
CountColor(counts, key) ==
    IF \E k \in 1..Len(counts) : counts[k][1] = key
    THEN [ k \in 1..Len(counts) |->
             IF counts[k][1] = key THEN <<key, counts[k][2] + 1>> ELSE counts[k] ]
    ELSE Append(counts, <<key, 1>>)

\* variant: the loop takes count >= maxCount, so the last of the tied wins
RECURSIVE ProminentScanLastWins(_, _)
ProminentScanLastWins(counts, k) ==
    IF k = 0 THEN <<Null, 0>>
    ELSE LET prev == ProminentScanLastWins(counts, k - 1)
             key == counts[k][1]
         IN  IF counts[k][2] >= prev[2]
             THEN << <<Byte(key[1]), Byte(key[2]), Byte(key[3])>>, counts[k][2] >>
             ELSE prev

\* the loop over colorCounts.entries() after its first k entries:
\* <<prominentColor, maxCount>>
RECURSIVE ProminentScan(_, _)
ProminentScan(counts, k) ==
    IF k = 0 THEN <<Null, 0>>
    ELSE LET prev == ProminentScan(counts, k - 1)
             key == counts[k][1]
         IN  IF counts[k][2] > prev[2]
             THEN << <<Byte(key[1]), Byte(key[2]), Byte(key[3])>>, counts[k][2] >>
             ELSE prev

\* horizontal strokes y = 0..rows, then vertical strokes x = 0..cols
GridLineStrokes(gridCols, gridRows) ==
    [ k \in 1..(gridRows + gridCols + 2) |->
        IF k <= gridRows + 1
        THEN [ op |-> "stroke", glyph |-> "none", line |-> "row",
               style |-> <<18, 34, 91>>, x |-> 0, y |-> k - 1 ]
        ELSE [ op |-> "stroke", glyph |-> "none", line |-> "col",
               style |-> <<18, 34, 91>>, x |-> k - gridRows - 2, y |-> 0 ] ]

\* renderKnitFrame(ctx, image, params, size), lines 34-43: the background
\* fill, the grid dimensions and the return on an empty grid
BeginFrame(img, p, sz) ==
    /\ image' = img
    /\ params' = p
    /\ size' = sz
    /\ ctx' = << [ op |-> "fillRect", glyph |-> "none", line |-> "none",
                   style |-> CssRgb(BACKGROUND_COLOR), x |-> 0, y |-> 0 ] >>
    /\ cols' = GridSize(sz, p)
    /\ rows' = GridSize(sz, p)
    /\ pc' = IF GridSize(sz, p) = 0 THEN "done" ELSE "sample"
    /\ sampledData' = <<>>
    /\ edgeMap' = <<>>
    /\ cellColors' = <<>>
    /\ colorCounts' = <<>>
    /\ prominentColor' = Null
    /\ cell' = 0
    /\ sampleCalls' = 0

\* a caller renders a frame
RenderBegin ==
    /\ pc = "idle"
    /\ \E img \in Images, p \in ParamChoices, sz \in Sizes :
          /\ GridSize(sz, p) <= MaxGrid
          /\ BeginFrame(img, p, sz)
    /\ UNCHANGED << call, previous, knitVars, appVars >>

\* lines 45-47: sampleImage and detectEdges
RenderSample ==
    /\ pc = "sample"
    /\ sampledData' = sampleImage(image, cols, rows)
    /\ edgeMap' = detectEdges(sampleImage(image, cols, rows), cols, rows)
    /\ sampleCalls' = sampleCalls + 1
    /\ pc' = "gridlines"
    /\ UNCHANGED << call, previous, knitVars, appVars, image, params, size, cols, rows, cellColors, colorCounts,
                    prominentColor, cell, ctx >>

\* variant: the grid lines are drawn whatever showGridLines is
RenderGridLinesAlways ==
    /\ pc = "gridlines"
    /\ ctx' = ctx \o GridLineStrokes(cols, rows)
    /\ pc' = "pass1"
    /\ cell' = 0
    /\ UNCHANGED << call, previous, knitVars, appVars, image, params, size, cols, rows,
                    sampledData, edgeMap, cellColors, colorCounts, prominentColor,
                    sampleCalls >>

\* lines 57-75: the grid lines, when enabled
RenderGridLines ==
    /\ pc = "gridlines"
    /\ ctx' = IF params.showGridLines THEN ctx \o GridLineStrokes(cols, rows) ELSE ctx
    /\ pc' = "pass1"
    /\ cell' = 0
    /\ UNCHANGED << call, previous, knitVars, appVars, image, params, size, cols, rows, sampledData, edgeMap,
                    cellColors, colorCounts, prominentColor, sampleCalls >>

\* lines 88-125: one cell of the first pass
RenderFirstPassCell ==
    /\ pc = "pass1"
    /\ cell < rows * cols
    /\ LET x == cell % cols
           y == cell \div cols
           alpha == sampledData[cell + 1][4]
           finalColor == finalColorOf(sampledData, params, x, y, cols)
       IN  IF alphaBelowCut(alpha)
           THEN /\ cellColors' = Append(cellColors, BACKGROUND_COLOR)
                /\ UNCHANGED colorCounts
           ELSE /\ cellColors' = Append(cellColors, finalColor)
                /\ colorCounts' = IF ~colorMatch(finalColor, BACKGROUND_COLOR)
                                  THEN CountColor(colorCounts, CssRgb(finalColor))
                                  ELSE colorCounts
    /\ cell' = cell + 1
    /\ UNCHANGED << call, previous, knitVars, appVars, pc, image, params, size, cols, rows, sampledData, edgeMap,
                    prominentColor, ctx, sampleCalls >>

\* lines 127-137: the prominent colour
RenderProminent ==
    /\ pc = "pass1"
    /\ cell = rows * cols
    /\ prominentColor' = ProminentScan(colorCounts, Len(colorCounts))[1]
    /\ pc' = "pass2"
    /\ cell' = 0
    /\ UNCHANGED << call, previous, knitVars, appVars, image, params, size, cols, rows, sampledData, edgeMap,
                    cellColors, colorCounts, ctx, sampleCalls >>

\* variant: the checkerboard test is pattern === 1
ruleGlyphParitySwapped(finalColor, prominent, x, y) ==
    LET isProminent == prominent # Null /\ colorMatch(finalColor, prominent)
    IN  IF isProminent
        THEN (IF (x + y) % 2 = 1 THEN "circle" ELSE "square")
        ELSE "diamond"

\* lines 150-159: the glyph before the edge bias
ruleGlyph(finalColor, prominent, x, y) ==
    LET isProminent == prominent # Null /\ colorMatch(finalColor, prominent)
    IN  IF isProminent
        THEN (IF (x + y) % 2 = 0 THEN "circle" ELSE "square")
        ELSE "diamond"

\* variant: the bias is applied when either condition holds
edgeBiasOnEitherCondition(isEdge, p) == isEdge \/ p.edgeCrispness > 0

\* line 162: isEdge && params.edgeCrispness > 0
edgeBias(isEdge, p) == isEdge /\ p.edgeCrispness > 0

\* lines 140-182: one cell of the second pass; r is Math.random() in thousandths
RenderSecondPassCell ==
    /\ pc = "pass2"
    /\ cell < rows * cols
    /\ LET x == cell % cols
           y == cell \div cols
           finalColor == cellColors[cell + 1]
           isEdge == edgeMap[cell + 1]
           biased == edgeBias(isEdge, params)
       IN  IF colorMatch(finalColor, BACKGROUND_COLOR)
           THEN UNCHANGED ctx
           ELSE \E r \in (IF biased THEN RandomDraws ELSE {0}) :
                   LET glyph == IF biased /\ r < params.edgeCrispness * 3
                                THEN "diamond"
                                ELSE ruleGlyph(finalColor, prominentColor, x, y)
                   IN  ctx' = Append(ctx, drawGlyph(glyph, x, y, CssRgb(finalColor)))
    /\ cell' = cell + 1
    /\ UNCHANGED << call, previous, knitVars, appVars, pc, image, params, size, cols, rows, sampledData, edgeMap,
                    cellColors, colorCounts, prominentColor, sampleCalls >>

\* the end of the second pass: renderKnitFrame returns
RenderReturn ==
    /\ pc = "pass2"
    /\ cell = rows * cols
    /\ pc' = "done"
    /\ UNCHANGED << call, previous, knitVars, appVars, image, params, size, cols, rows, sampledData, edgeMap,
                    cellColors, colorCounts, prominentColor, cell, ctx, sampleCalls >>

\* after the return the frame's locals are gone and the caller may render
\* again; ctx is the list of draw calls of one frame
RenderDiscard ==
    /\ pc = "done"
    /\ pc' = "idle"
    /\ image' = 0
    /\ params' = DEFAULT_PARAMS
    /\ size' = 0
    /\ cols' = 0
    /\ rows' = 0
    /\ sampledData' = <<>>
    /\ edgeMap' = <<>>
    /\ cellColors' = <<>>
    /\ colorCounts' = <<>>
    /\ prominentColor' = Null
    /\ cell' = 0
    /\ ctx' = <<>>
    /\ sampleCalls' = 0
    /\ previous' = NoPrevious
    /\ UNCHANGED << call, knitVars, appVars >>

Next ==
    \/ RenderBegin
    \/ RenderSample
    \/ RenderGridLines
    \/ RenderFirstPassCell
    \/ RenderProminent
    \/ RenderSecondPassCell
    \/ RenderReturn
    \/ RenderDiscard

Spec == Init /\ [][Next]_vars

----------------------------------------------------------------------------
(* A caller that renders the same frame twice: the same image samples,      *)
(* params and size, as the render loop does when nothing but the dirty flag *)
(* changed.                                                                 *)

\* the first call
RenderFirst ==
    /\ pc = "idle"
    /\ \E img \in 0..MaxRepeatImage, p \in ParamChoices, sz \in Sizes :
          /\ GridSize(sz, p) <= MaxGrid
          /\ BeginFrame(img, p, sz)
    /\ UNCHANGED << call, previous, knitVars, appVars >>

\* the second call, after the first has returned: renderKnitFrame again with
\* the arguments of the first; the draw calls of the first are kept aside
RenderAgain ==
    /\ pc = "done"
    /\ ~previous.called
    /\ previous' = [called |-> TRUE, image |-> image, params |-> params,
                    size |-> size, ctx |-> ctx]
    /\ BeginFrame(image, params, size)
    /\ UNCHANGED << call, knitVars, appVars >>

\* both calls have returned
RenderForget ==
    /\ previous.called
    /\ RenderDiscard

RepeatNext ==
    \/ RenderFirst
    \/ RenderAgain
    \/ RenderSample
    \/ RenderGridLines
    \/ RenderFirstPassCell
    \/ RenderProminent
    \/ RenderSecondPassCell
    \/ RenderReturn
    \/ RenderForget

RepeatSpec == Init /\ [][RepeatNext]_vars

----------------------------------------------------------------------------
(* components/KnitCanvas.tsx with state/useKnitStore.ts: the effects of the  *)
(* component, the static render loop and the video animation loops.  Every   *)
(* action is one task of the browser's event loop.  The store notifies React *)
(* synchronously, and React renders and runs the effects of a store change   *)
(* before the browser takes the next task, so a task other than the effects  *)
(* runs only when the effects of the last store change have run.             *)

\* at most MaxVideos video elements are created
MaxVideos == 2

\* at most MaxParamUpdates updateParam / applyPreset calls are made
MaxParamUpdates == 1

\* video files are numbered 1..MaxVideoFiles
MaxVideoFiles == 2

frameVars == << pc, image, params, size, cols, rows, sampledData, edgeMap,
               cellColors, colorCounts, prominentColor, cell, ctx, sampleCalls,
               previous >>

\* document.createElement('video') of line 156, with the params that the
\* effect's renderVideoFrame has closed over
NewVideo(p) ==
    [paused |-> TRUE, metadata |-> "pending", frame |-> "none", raf |-> FALSE,
     params |-> p, othersSince |-> FALSE]

\* video.pause(); video.src = ''; video.load(): the element is paused and a
\* loadedmetadata not yet delivered is dropped
PauseAndUnload(vs, g) ==
    IF g = 0 THEN vs
    ELSE [vs EXCEPT ![g].paused = TRUE,
                    ![g].metadata = IF @ = "pending" THEN "dropped" ELSE @]

\* cancelAnimationFrame(animationFrameRef.current)
CancelFrame(vs, g) ==
    IF g = 0 THEN vs ELSE [vs EXCEPT ![g].raf = FALSE]

\* a render of the canvas starts that is not a frame of loop g: every other
\* video frame being processed has seen another render start
MarkOthers(vs, g) ==
    [ h \in DOMAIN vs |->
        IF h # g /\ vs[h].frame = "awaiting"
        THEN [vs[h] EXCEPT !.othersSince = TRUE]
        ELSE vs[h] ]

\* renderVideoFrame(video, size) up to its await: the frame is cropped to a
\* temporary canvas and createImageBitmap is pending
StartVideoFrame(vs, g) ==
    [MarkOthers(vs, g) EXCEPT ![g].frame = "awaiting", ![g].othersSince = FALSE]

Settled == mounted /\ store = committed

\* variant: dirty is missing from the dependencies
renderLoopDepsWithoutDirty(s) == <<s.image, s.params, s.isAnimating>>

\* line 239: [dirty, render, isAnimating], render being rebuilt on image and params
renderLoopDeps(s) == <<s.dirty, s.image, s.params, s.isAnimating>>

\* React renders KnitCanvas with the store's values and runs the effects
\* whose dependencies changed: first their cleanups, then their bodies, in
\* the order of the source.  The video effect depends on videoFile and on
\* renderVideoFrame (params); the render loop effect on dirty, render (image,
\* params) and isAnimating; the params effect on the params values.
KnitCanvasEffects ==
    /\ ~mounted \/ store # committed
    /\ LET s == store
           videoChanged == \/ ~mounted
                           \/ s.videoFile # committed.videoFile
                           \/ s.params # committed.params
           loopChanged == ~mounted \/ renderLoopDeps(s) # renderLoopDeps(committed)
           paramsChanged == ~mounted \/ s.params # committed.params
           \* lines 200-215, the cleanup the video effect returned
           videoCleanup == mounted /\ videoChanged /\ committed.videoFile # 0
           \* lines 234-238, the cleanup the render loop effect returned
           loopCleanup == mounted /\ loopChanged /\ ~committed.isAnimating
           vs1 == IF videoCleanup
                  THEN CancelFrame(PauseAndUnload(videos, videoRef), animationFrameRef)
                  ELSE videos
           afr1 == IF videoCleanup THEN 0 ELSE animationFrameRef
           anim1 == IF videoCleanup THEN FALSE ELSE s.isAnimating
           loop1 == IF loopCleanup THEN [renderLoop EXCEPT !.pending = FALSE]
                    ELSE renderLoop
           \* lines 135-153 and 155-198, the body of the video effect
           clears == videoChanged /\ s.videoFile = 0
           creates == videoChanged /\ s.videoFile # 0
           vs2 == IF clears THEN CancelFrame(PauseAndUnload(vs1, videoRef), afr1)
                  ELSE IF creates THEN Append(vs1, NewVideo(s.params))
                  ELSE vs1
       IN  /\ videos' = vs2
           /\ videoRef' = IF clears THEN 0
                          ELSE IF creates THEN Len(vs2)
                          ELSE videoRef
           /\ animationFrameRef' = IF clears THEN 0 ELSE afr1
           \* lines 222-232, the body of the render loop effect, with the
           \* isAnimating, dirty and render of this render
           /\ renderLoop' = IF loopChanged /\ ~s.isAnimating
                            THEN [pending |-> TRUE, dirty |-> s.dirty,
                                  image |-> s.image, params |-> s.params]
                            ELSE loop1
           \* setIsAnimating(false) of the video effect, setDirty(true) of
           \* lines 245-256 and 279-281
           /\ store' = [s EXCEPT !.isAnimating = IF clears THEN FALSE ELSE anim1,
                                 !.dirty = IF paramsChanged THEN TRUE ELSE @]
           /\ committed' = s
    /\ mounted' = TRUE
    /\ UNCHANGED << call, frameVars, appVars, container, pendingImage, lastRender >>

\* useKnitStore.updateParam / applyPreset
updateParam ==
    /\ Settled
    /\ store.params < MaxParamUpdates
    /\ store.videoFile # 0 => Len(videos) < MaxVideos
    /\ store' = [store EXCEPT !.params = @ + 1, !.dirty = TRUE]
    /\ UNCHANGED << call, frameVars, appVars, container, mounted, committed, renderLoop, videoRef,
                    animationFrameRef, videos, pendingImage, lastRender >>

\* App.loadImage with a video file: setVideoFile(file), then the first frame
\* is extracted
LoadVideoFile ==
    /\ Settled
    /\ ~pendingImage
    /\ Len(videos) < MaxVideos
    /\ \E f \in 1..MaxVideoFiles :
          /\ f # store.videoFile
          /\ store' = [store EXCEPT !.videoFile = f]
    /\ pendingImage' = TRUE
    /\ UNCHANGED << call, frameVars, appVars, container, mounted, committed, renderLoop, videoRef,
                    animationFrameRef, videos, lastRender >>

\* App.loadImage with an image file: setVideoFile(null), then the bitmap is
\* decoded
LoadImageFile ==
    /\ Settled
    /\ ~pendingImage
    /\ store' = [store EXCEPT !.videoFile = 0]
    /\ pendingImage' = TRUE
    /\ UNCHANGED << call, frameVars, appVars, container, mounted, committed, renderLoop, videoRef,
                    animationFrameRef, videos, lastRender >>

\* the end of App.loadImage: useKnitStore.setImage(squareBitmap)
setImage ==
    /\ Settled
    /\ pendingImage
    /\ store' = [store EXCEPT !.image = TRUE, !.dirty = TRUE]
    /\ pendingImage' = FALSE
    /\ UNCHANGED << call, frameVars, appVars, container, mounted, committed, renderLoop, videoRef,
                    animationFrameRef, videos, lastRender >>

\* the container is resized; lines 265-267, the ResizeObserver callback:
\* setDirty(true)
ResizeObserved ==
    /\ Settled
    /\ \E sz \in {0, 1} : container' = sz
    /\ store' = [store EXCEPT !.dirty = TRUE]
    /\ UNCHANGED << call, frameVars, appVars, mounted, committed, renderLoop, videoRef,
                    animationFrameRef, videos, pendingImage, lastRender >>

\* lines 225-230, the frame callback renderLoop: render() when its dirty is
\* set, which returns on a container of size 0 (line 89) and otherwise draws
\* the placeholder or calls renderKnitFrame and then setDirty(false); the
\* callback requests itself again
renderLoopFrame ==
    /\ Settled
    /\ renderLoop.pending
    /\ IF renderLoop.dirty /\ container # 0
       THEN /\ lastRender' = [kind |-> IF renderLoop.image THEN "static"
                                                            ELSE "placeholder",
                              params |-> renderLoop.params, video |-> 0]
            /\ videos' = MarkOthers(videos, 0)
            /\ store' = [store EXCEPT !.dirty = FALSE]
       ELSE UNCHANGED << lastRender, videos, store >>
    /\ UNCHANGED << call, frameVars, appVars, container, mounted, committed, renderLoop, videoRef,
                    animationFrameRef, pendingImage >>

\* lines 167-195, handleLoadedMetadata of the current video element: it
\* returns on a container of size 0 (line 174); otherwise
\* setIsAnimating(true), video.play(), and the first animate(), which finds
\* the video playing and starts renderVideoFrame
handleLoadedMetadata ==
    /\ Settled
    /\ \E g \in DOMAIN videos :
          /\ videos[g].metadata = "pending"
          /\ videos' = IF container = 0
                       THEN [videos EXCEPT ![g].metadata = "fired"]
                       ELSE StartVideoFrame(
                              [videos EXCEPT ![g].metadata = "fired",
                                             ![g].paused = FALSE], g)
    /\ store' = [store EXCEPT !.isAnimating = IF container = 0 THEN @ ELSE TRUE]
    /\ UNCHANGED << call, frameVars, appVars, container, mounted, committed, renderLoop, videoRef,
                    animationFrameRef, pendingImage, lastRender >>

\* lines 62-67 and 191: createImageBitmap resolves, renderVideoFrame calls
\* renderKnitFrame with its params and returns, and animate requests the
\* next frame
renderVideoFrameResumes ==
    /\ Settled
    /\ \E g \in DOMAIN videos :
          /\ videos[g].frame = "awaiting"
          /\ lastRender' = [kind |-> "video", params |-> videos[g].params, video |-> g]
          /\ videos' = [videos EXCEPT ![g].frame = "none", ![g].othersSince = FALSE,
                                      ![g].raf = TRUE]
          /\ animationFrameRef' = g
    /\ UNCHANGED << call, frameVars, appVars, container, store, mounted, committed, renderLoop, videoRef,
                    pendingImage >>

\* lines 184-192, the frame callback animate
animate ==
    /\ Settled
    /\ \E g \in DOMAIN videos :
          /\ videos[g].raf
          /\ videos' = IF videoRef = 0 \/ videos[g].paused
                       THEN [videos EXCEPT ![g].raf = FALSE]
                       ELSE StartVideoFrame([videos EXCEPT ![g].raf = FALSE], g)
    /\ UNCHANGED << call, frameVars, appVars, container, store, mounted, committed, renderLoop, videoRef,
                    animationFrameRef, pendingImage, lastRender >>

CanvasNext ==
    \/ KnitCanvasEffects
    \/ updateParam
    \/ LoadVideoFile
    \/ LoadImageFile
    \/ setImage
    \/ ResizeObserved
    \/ renderLoopFrame
    \/ handleLoadedMetadata
    \/ renderVideoFrameResumes
    \/ animate

CanvasSpec == Init /\ [][CanvasNext]_vars

\* React runs the effects of every store change, and the browser runs a
\* requested frame callback on every frame, however often the requests are
\* cancelled and made again in between.
CanvasFairSpec ==
    /\ CanvasSpec
    /\ WF_vars(KnitCanvasEffects)
    /\ SF_vars(renderLoopFrame)

----------------------------------------------------------------------------
(* Claims about the palette functions, checked under PaletteSpec *)

InUnitRange(rgb) == \A i \in 1..3 : 0 <= rgb[i] /\ rgb[i] <= One

C2_QuantizationIdempotent ==
    /\ call.fn = "nearestBrandColor" =>
          /\ call.again = call.out
          /\ call.rgb \in PaletteMembers => call.out = call.rgb
    /\ call.fn = "applyPaletteMix" => call.again = call.out

C2_Witness ==
    /\ call.fn = "nearestBrandColor"
    /\ call.rgb = ACTIVE_PALETTE[3]
    /\ call.out = call.rgb
    /\ call.again = call.rgb

C4_MixZeroReturnsOriginal ==
    (call.fn = "applyPaletteMix" /\ call.arg = 0) => call.out = call.rgb

\* C5: identity laws: applyContrast(c, 1.0) = c, applySaturation(c, 1.0) = c
\* and applyDither(c, amount, x, y) = c whenever amount <= 0.
C5_IdentityLaws ==
    /\ (call.fn = "applyContrast" /\ call.arg = 100) => call.out = call.rgb
    /\ (call.fn = "applySaturation" /\ call.arg = 100) => call.out = call.rgb
    /\ (call.fn = "applyDither" /\ call.arg <= 0) => call.out = call.rgb

C5_Witness ==
    /\ call.fn = "applyDither"
    /\ call.arg < 0
    /\ call.x + call.y > 0
    /\ ~InUnitRange(call.rgb)
    /\ call.out = call.rgb

\* C6: clamping law: every channel of the output of applyContrast,
\* applySaturation and applyDither lies in [0, 1], for every input colour
\* (a channel outside [0, 1] included) and every parameter value.
C6_OutputsClamped ==
    call.fn \in {"applyContrast", "applySaturation", "applyDither"} =>
        InUnitRange(call.out)

----------------------------------------------------------------------------
(* Claims about renderKnitFrame, checked under Spec *)

Cells == 1..(cols * rows)
CellX(j) == (j - 1) % cols
CellY(j) == (j - 1) \div cols

\* the first pass is over: cellColors and prominentColor are final
FirstPassOver == pc = "pass2" \/ (pc = "done" /\ cols > 0)

\* the positions in ctx of the glyphs drawn at cell j
GlyphDrawsAt(j) ==
    { k \in 1..Len(ctx) :
        ctx[k].glyph # "none" /\ ctx[k].x = CellX(j) /\ ctx[k].y = CellY(j) }

GlyphDraws == { k \in 1..Len(ctx) : ctx[k].glyph # "none" }

NonBackgroundCells == { j \in Cells : cellColors[j] # BACKGROUND_COLOR }

CellCount(c) == Cardinality({ j \in Cells : cellColors[j] = c })

FirstCell(c) == CHOOSE j \in Cells :
                    cellColors[j] = c /\ \A i \in Cells : cellColors[i] = c => j <= i

EdgeBiasApplies(j) == edgeMap[j] /\ params.edgeCrispness > 0

C8_Prominence ==
    FirstPassOver =>
        /\ prominentColor = Null <=> NonBackgroundCells = {}
        /\ prominentColor # Null =>
              /\ \E j \in NonBackgroundCells : cellColors[j] = prominentColor
              /\ \A j \in NonBackgroundCells :
                    LET d == cellColors[j]
                    IN  /\ CellCount(prominentColor) >= CellCount(d)
                        /\ (d # prominentColor
                              /\ CellCount(d) = CellCount(prominentColor)) =>
                               FirstCell(prominentColor) < FirstCell(d)

C8_Witness ==
    /\ pc = "pass2"
    /\ prominentColor = ACTIVE_PALETTE[2]
    /\ CellCount(ACTIVE_PALETTE[2]) = 2
    /\ CellCount(ACTIVE_PALETTE[3]) = 2
    /\ cellColors[1] = ACTIVE_PALETTE[2]
    /\ cellColors[2] = ACTIVE_PALETTE[3]

\* C9: in one renderKnitFrame call exactly one glyph is drawn for each cell
\* whose final colour is not the background colour, none for a cell whose
\* final colour is the background colour or whose sampled alpha is below
\* 0.05; the number of glyph draws is the number of non-background cells.
C9_OneGlyphPerNonBackgroundCell ==
    pc = "done" /\ cols > 0 =>
        /\ \A j \in Cells :
              /\ cellColors[j] # BACKGROUND_COLOR => Cardinality(GlyphDrawsAt(j)) = 1
              /\ cellColors[j] = BACKGROUND_COLOR => GlyphDrawsAt(j) = {}
              /\ sampledData[j][4] * 20 < 255 => GlyphDrawsAt(j) = {}
        /\ Cardinality(GlyphDraws) = Cardinality(NonBackgroundCells)

C9_Witness ==
    /\ pc = "done"
    /\ cols = 2
    /\ \E j \in Cells : sampledData[j][4] * 20 < 255
    /\ \E j \in Cells : sampledData[j][4] = 255 /\ cellColors[j] = BACKGROUND_COLOR
    /\ Cardinality(GlyphDraws) = 2

\* C10: when floor(size / clamp(stitchPx, 4, 100)) = 0 renderKnitFrame issues
\* exactly one draw call, the background fillRect, and no sampling, gridline
\* stroke or glyph draw happens.
C10_EmptyGridDrawsBackgroundOnly ==
    (pc = "done" /\ size \div Max(4, Min(100, params.stitchPx)) = 0) =>
        /\ Len(ctx) = 1
        /\ ctx[1].op = "fillRect"
        /\ ctx[1].glyph = "none"
        /\ ctx[1].style = CssRgb(BACKGROUND_COLOR)
        /\ sampleCalls = 0
        /\ sampledData = <<>>

C10_Witness ==
    /\ pc = "done"
    /\ size = 10
    /\ params.stitchPx = 20
    /\ params.showGridLines
    /\ Len(ctx) = 1
    /\ sampleCalls = 0

\* the draw calls are the background fill and nothing else
BackgroundFillOnly ==
    /\ Len(ctx) = 1
    /\ ctx[1].op = "fillRect"
    /\ ctx[1].glyph = "none"
    /\ ctx[1].style = CssRgb(BACKGROUND_COLOR)

\* C11 as stated: for every canvas size and every stitchPx greater than the
\* canvas size renderKnitFrame resolves the grid to 0x0 and draws the
\* background fill only.  A canvas of 120 pixels with stitchPx = 150 refutes
\* it: the stitch size is cut to 100 and the grid is 1x1.
C11_StitchOverSizeEmptyGrid ==
    (pc = "done" /\ params.stitchPx > size) =>
        /\ cols = 0
        /\ rows = 0
        /\ BackgroundFillOnly

\* C11 amended: whenever the stitch size after its cut to 4..100 is greater
\* than the canvas size, the grid is 0x0 and the frame is the background
\* fill only, with no glyph draw.
C11_ClampedStitchOverSizeEmptyGrid ==
    (pc = "done" /\ Max(4, Min(100, params.stitchPx)) > size) =>
        /\ cols = 0
        /\ rows = 0
        /\ BackgroundFillOnly
        /\ GlyphDraws = {}

C11_Witness ==
    /\ pc = "done"
    /\ size = 40
    /\ params.stitchPx = 150
    /\ cols = 0
    /\ rows = 0
    /\ Len(ctx) = 1

CellOfDraw(k) == ctx[k].y * cols + ctx[k].x + 1

\* lines 152-153: isProminent of cell j
IsProminentCell(j) ==
    prominentColor # Null /\ colorMatch(cellColors[j], prominentColor)

\* C22: the edge-bias override can only turn a glyph into a diamond, and only
\* on a cell flagged as an edge while edgeCrispness > 0: in every outcome of
\* the random draw a non-prominent cell is a diamond, a prominent cell is
\* never a square on even x + y and never a circle on odd x + y, and a cell
\* that is not an edge (or any cell when edgeCrispness <= 0) keeps its
\* rule-based glyph.
C22_EdgeBiasOnlyTowardsDiamond ==
    FirstPassOver =>
        \A k \in GlyphDraws :
            LET j == CellOfDraw(k)
                even == (ctx[k].x + ctx[k].y) % 2 = 0
                rule == IF ~IsProminentCell(j) THEN "diamond"
                        ELSE IF even THEN "circle" ELSE "square"
            IN  /\ ~IsProminentCell(j) => ctx[k].glyph = "diamond"
                /\ (IsProminentCell(j) /\ even) => ctx[k].glyph # "square"
                /\ (IsProminentCell(j) /\ ~even) => ctx[k].glyph # "circle"
                /\ ctx[k].glyph # rule =>
                      /\ ctx[k].glyph = "diamond"
                      /\ edgeMap[j]
                      /\ params.edgeCrispness > 0

\* the override has fired on one prominent edge cell and has not on another
C22_Witness ==
    /\ pc = "done"
    /\ params.edgeCrispness > 0
    /\ \E k \in GlyphDraws :
          /\ IsProminentCell(CellOfDraw(k))
          /\ edgeMap[CellOfDraw(k)]
          /\ ctx[k].glyph = "diamond"
    /\ \E k \in GlyphDraws :
          /\ IsProminentCell(CellOfDraw(k))
          /\ edgeMap[CellOfDraw(k)]
          /\ ctx[k].glyph \in {"circle", "square"}

\* C23: draw order within one renderKnitFrame call: the background fillRect
\* is the first draw call, every gridline stroke (issued only when
\* showGridLines is true) precedes every glyph draw, and glyphs are drawn in
\* row-major cell order.
C23_DrawOrder ==
    pc # "idle" =>
        /\ Len(ctx) >= 1
        /\ ctx[1].op = "fillRect"
        /\ ctx[1].glyph = "none"
        /\ ctx[1].line = "none"
        /\ ctx[1].style = CssRgb(BACKGROUND_COLOR)
        /\ \A k \in 2..Len(ctx) : ctx[k].op = "stroke" \/ ctx[k].glyph # "none"
        /\ \A k \in 1..Len(ctx) : ctx[k].op = "stroke" => params.showGridLines
        /\ \A k1 \in 1..Len(ctx), k2 \in GlyphDraws :
              ctx[k1].op = "stroke" => k1 < k2
        /\ \A k1 \in GlyphDraws, k2 \in GlyphDraws :
              k1 < k2 => CellOfDraw(k1) < CellOfDraw(k2)

C23_Witness ==
    /\ pc = "done"
    /\ params.showGridLines
    /\ cols = 2
    /\ Len(ctx) = 11
    /\ ctx[2].op = "stroke"
    /\ ctx[7].op = "stroke"
    /\ \A k \in 8..11 : ctx[k].glyph # "none" /\ CellOfDraw(k) = k - 7

\* Math.round(c * 255) on each channel, and the colour parsed back from the key
RebuiltFromKey(c) ==
    LET key == CssRgb(c) IN <<Byte(key[1]), Byte(key[2]), Byte(key[3])>>

\* C24: the prominent colour is rebuilt from a rounded 8-bit key, yet
\* recognition stays exact: distinct palette members have distinct keys, the
\* rebuilt colour matches its own palette member within the tolerance and no
\* other member (nor the background), and in the second pass a cell is
\* treated as prominent if and only if its quantized colour is the palette
\* member with the maximal count.
C24_ProminentRecognitionExact ==
    /\ \A m1 \in PaletteMembers, m2 \in PaletteMembers :
          /\ m1 # m2 => CssRgb(m1) # CssRgb(m2)
          /\ colorMatch(RebuiltFromKey(m1), m2) <=> m1 = m2
    /\ (FirstPassOver /\ prominentColor # Null) =>
          \E m \in PaletteMembers \ {BACKGROUND_COLOR} :
              /\ prominentColor = RebuiltFromKey(m)
              /\ \A c \in PaletteMembers \ {BACKGROUND_COLOR} :
                    CellCount(c) <= CellCount(m)
              /\ \A j \in Cells : IsProminentCell(j) <=> cellColors[j] = m

C24_Witness ==
    /\ pc = "done"
    /\ cols = 2
    /\ prominentColor = RebuiltFromKey(ACTIVE_PALETTE[2])
    /\ CellCount(ACTIVE_PALETTE[2]) = 2
    /\ CellCount(ACTIVE_PALETTE[3]) = 1
    /\ CellCount(BACKGROUND_COLOR) = 1
    /\ Cardinality({ k \in GlyphDraws : ctx[k].glyph = "diamond" }) >= 1

----------------------------------------------------------------------------
(* Claims about repeated calls, checked under RepeatSpec *)

\* the stochastic edge-bias term cannot fire in this frame
NoEdgeBias == params.edgeCrispness <= 0 \/ \A j \in Cells : ~edgeMap[j]

\* C12: two renderKnitFrame calls with identical image samples, params and
\* size produce the identical sequence of draw calls whenever the edge-bias
\* term cannot fire (edgeCrispness <= 0 or no cell flagged as an edge);
\* nothing of the first call influences the second.
C12_RepeatedCallDrawsTheSame ==
    (/\ pc = "done"
     /\ previous.called
     /\ previous.image = image /\ previous.params = params /\ previous.size = size
     /\ NoEdgeBias) =>
        ctx = previous.ctx

C12_Witness ==
    /\ pc = "done"
    /\ previous.called
    /\ params.edgeCrispness = 0
    /\ \E j \in Cells : edgeMap[j]
    /\ Cardinality(GlyphDraws) >= 3
    /\ ctx = previous.ctx

\* with the edge bias able to fire, two calls with identical arguments differ
C12_BiasedCallsDiffer ==
    /\ pc = "done"
    /\ previous.called
    /\ ~NoEdgeBias
    /\ ctx # previous.ctx

----------------------------------------------------------------------------
(* Claims about detectEdges, bayer4 and sampleImage, checked under          *)
(* LibrarySpec, and further claims about the palette functions, checked     *)
(* under PaletteSpec                                                        *)

\* every cell of the grid has the same r, g, b
UniformRGB(data) ==
    \A j \in DOMAIN data, k \in DOMAIN data :
        /\ data[j][1] = data[k][1]
        /\ data[j][2] = data[k][2]
        /\ data[j][3] = data[k][3]

\* C14: for every width >= 1 and height >= 1, detectEdges on a grid in which
\* every cell has the same RGB value returns a height-by-width edge map with
\* no true entry, border cells included.
C14_UniformGridHasNoEdge ==
    (call.fn = "detectEdges" /\ UniformRGB(call.data)) =>
        /\ DOMAIN call.out = 1..(call.x * call.y)
        /\ \A j \in DOMAIN call.out : ~call.out[j]

C14_Witness ==
    /\ call.fn = "detectEdges"
    /\ call.x = 3
    /\ call.y = 4
    /\ call.rgb = <<255, 128, 0>>
    /\ call.arg = 2
    /\ Len(call.out) = 12
    /\ \A j \in 1..12 : ~call.out[j]

\* a grid that is not uniform does have edges
C14_EdgeFound ==
    /\ call.fn = "detectEdges"
    /\ call.arg = 1
    /\ \E j \in DOMAIN call.out : call.out[j]

\* C15: nearestBrandColor returns its input unchanged for LIDL_COLORS.yellow
\* (#FFE933), for LIDL_COLORS.blueRoyal (#2151A9) and for the navy/blue
\* entry [0, 0.2118, 0.4980].
C15_BrandColoursAreFixedPoints ==
    (/\ call.fn = "nearestBrandColor"
     /\ call.rgb \in {LIDL_COLORS.yellow, LIDL_COLORS.blueRoyal, NavyBlueExample}) =>
        call.out = call.rgb

\* C16: for every input colour, the result of nearestBrandColor is equal to
\* one of the values of the LIDL_COLORS table.
C16_NearestIsLidlColor ==
    call.fn = "nearestBrandColor" => call.out \in LidlColorValues

\* C17: for x >= 0 and y >= 0, bayer4(x, y) is a value in [0, 1] (0..16
\* sixteenths), equal to bayer4(x + 4, y) and to bayer4(x, y + 4);
\* bayer4(0, 0) = 0, bayer4(1, 0) = 0.5 and bayer4(0, 1) = 0.75.
C17_Bayer4PeriodicInUnitRange ==
    call.fn = "bayer4" =>
        /\ call.out \in 0..16
        /\ call.out = call.again[1]
        /\ call.out = call.again[2]
        /\ (call.x = 0 /\ call.y = 0) => call.out = 0
        /\ (call.x = 1 /\ call.y = 0) => call.out = 8
        /\ (call.x = 0 /\ call.y = 1) => call.out = 12

C17_Witness ==
    /\ call.fn = "bayer4"
    /\ call.x = 5
    /\ call.y = 0
    /\ call.out = 8
    /\ call.again = <<8, 8>>

\* C18: for amount in (0, 1] and every cell (x, y), applyDither adds one and
\* the same offset d to all three channels before clamping, d depends only
\* on (x mod 4, y mod 4, amount), and -0.05 * amount <= d <= 0.05 * amount.
C18_DitherOffsetUniformAndBounded ==
    (call.fn = "applyDither" /\ call.arg > 0 /\ call.arg <= 100) =>
        LET d == ditherValue(call.arg, call.x % 4, call.y % 4)
            limit == (5 * call.arg * (One \div 100)) \div 100
        IN  /\ \A i \in 1..3 : call.out[i] = Max(0, Min(One, call.rgb[i] + d))
            /\ 0 - limit <= d
            /\ d <= limit

C18_Witness ==
    /\ call.fn = "applyDither"
    /\ call.arg = 30
    /\ call.x = 4
    /\ call.y = 1
    /\ call.rgb = <<204000, 408000, 612000>>
    /\ call.out = <<210120, 414120, 618120>>

\* C19: sampleImage called with cols <= 0 or rows <= 0 returns an empty grid
\* (no cells) and does not throw.
C19_SampleImageEmptyGrid ==
    (call.fn = "sampleImage" /\ (call.x <= 0 \/ call.y <= 0)) =>
        /\ call.out.error = "none"
        /\ call.out.data = <<>>

----------------------------------------------------------------------------
(* Claims about the frames drawn by KnitCanvas, checked under CanvasSpec *)

\* a loop has requested its next frame only when its renderVideoFrame is over
NextFrameRequestedAfterFrame ==
    \A g \in DOMAIN videos : videos[g].raf => videos[g].frame = "none"

\* while a video frame is being processed no other render of the canvas starts
NoRenderDuringVideoFrame ==
    \A g \in DOMAIN videos : videos[g].frame = "awaiting" => ~videos[g].othersSince

\* C20: frames drawn to the canvas are serialized: the animation loop
\* requests its next frame only after the current frame's renderVideoFrame
\* has completed, and no other render of the same canvas (static render() or
\* a frame of another animation loop) starts between the start of a video
\* frame's processing and the end of its renderKnitFrame.
C20_FramesSerialized ==
    /\ NextFrameRequestedAfterFrame
    /\ NoRenderDuringVideoFrame

\* the static render() draws the image with the new params while a frame of
\* the loop that was cleaned up is still being processed, and that frame is
\* then drawn with the old params
C20_StaleVideoFrameDrawn ==
    /\ lastRender.kind = "video"
    /\ lastRender.params < store.params
    /\ videos[lastRender.video].paused
    /\ ~store.isAnimating

----------------------------------------------------------------------------
(* Claims about the live controls, checked under CanvasFairSpec *)

\* the static render() has drawn with the store's params and cleared dirty
RenderedCurrentParams ==
    /\ ~store.dirty
    /\ lastRender.kind \in {"static", "placeholder"}
    /\ lastRender.params = store.params

----------------------------------------------------------------------------
(* Claims about the video effect's cleanup, checked under CanvasSpec *)

\* the cleanup of lines 200-215 has run for video g: the effect has since
\* cleared videoRef or pointed it at a newer element
CleanedUp(g) == g \in DOMAIN videos /\ g # videoRef

\* an animation loop is live while a frame of it is in renderVideoFrame or
\* its animate is requested as a frame callback
LiveLoops == { g \in DOMAIN videos : videos[g].frame = "awaiting" \/ videos[g].raf }

\* a step in which the frame of loop g is drawn to the canvas
DrawsFrame(g) == videos[g].frame = "awaiting" /\ videos'[g].frame = "none"

\* a step in which loop g requests an animation frame
SchedulesFrame(g) == ~videos[g].raf /\ videos'[g].raf

\* C27: after the video effect's cleanup has run, the old animation loop
\* draws no further frame to the canvas and requests no further animation
\* frame, even when the cleanup happens while animate is suspended in the
\* awaited renderVideoFrame; at most one animation loop is live at any time.
C27_CleanedUpLoopStops ==
    /\ [][\A g \in DOMAIN videos :
            CleanedUp(g) => ~DrawsFrame(g) /\ ~SchedulesFrame(g)]_vars
    /\ [](Cardinality(LiveLoops) <= 1)

\* the loop of a video that was cleaned up has drawn a frame and holds a
\* frame request, and the loop of its successor is in a frame of its own
C27_OldLoopStillRuns ==
    \E g \in DOMAIN videos :
        /\ CleanedUp(g)
        /\ videos[g].raf
        /\ lastRender.kind = "video"
        /\ lastRender.video = g
        /\ videoRef # 0
        /\ videos[videoRef].frame = "awaiting"

----------------------------------------------------------------------------
(* App.tsx, loadImage: the user selects files, and each call runs to its    *)
(* first await, then to its second, then to setImage                        *)

\* at most MaxLoads files are selected
MaxLoads == 3

\* the files the user can select: 1 and 2 are images, 3 and 4 are videos
MaxFiles == 4

Files == 1..MaxFiles

\* file.type.startsWith('video/')
IsVideo(f) == f > 2

\* lines 85-97, handleFileChange / handleDrop calling loadImage(file):
\* setVideoFile(file) or setVideoFile(null), then the call waits for
\* extractVideoFrame(file) or createImageBitmap(file)
loadImage ==
    /\ Len(loads) < MaxLoads
    /\ \E f \in Files :
          /\ loads' = Append(loads, [file |-> f, stage |-> "decoding"])
          /\ appStore' = [appStore EXCEPT !.videoFile = IF IsVideo(f) THEN f ELSE 0]
    /\ UNCHANGED << call, frameVars, knitVars, localStorage, processing, exporting >>

\* lines 93 / 98 resolve; lines 101-106: the call waits for the square crop
BitmapDecoded ==
    /\ \E i \in DOMAIN loads :
          /\ loads[i].stage = "decoding"
          /\ loads' = [loads EXCEPT ![i].stage = "cropping"]
    /\ UNCHANGED << call, frameVars, knitVars, appStore, localStorage, processing,
                    exporting >>

\* line 106 resolves; line 111: setImage(squareBitmap)
BitmapCropped ==
    /\ \E i \in DOMAIN loads :
          /\ loads[i].stage = "cropping"
          /\ loads' = [loads EXCEPT ![i].stage = "settled"]
          /\ appStore' = [appStore EXCEPT !.image = loads[i].file]
    /\ UNCHANGED << call, frameVars, knitVars, localStorage, processing, exporting >>

LoadNext ==
    \/ loadImage
    \/ BitmapDecoded
    \/ BitmapCropped

LoadSpec == Init /\ [][LoadNext]_vars

\* every loadImage call made so far has settled
AllLoadsSettled == \A i \in DOMAIN loads : loads[i].stage = "settled"

\* C26: file loads do not cross: when the user selects file A and then file
\* B while A is still decoding, then once both loadImage calls have settled
\* the store's image is the one derived from B, and videoFile is B when B is
\* a video and null when B is an image.
C26_LoadsDoNotCross ==
    (Len(loads) >= 2 /\ AllLoadsSettled) =>
        LET B == loads[Len(loads)].file
        IN  /\ appStore.image = B
            /\ appStore.videoFile = IF IsVideo(B) THEN B ELSE 0

\* a video was selected and then an image; both calls have settled and the
\* store holds the frame of the video with no videoFile
C26_ImageOfAnotherFile ==
    /\ Len(loads) = 2
    /\ AllLoadsSettled
    /\ IsVideo(loads[1].file)
    /\ ~IsVideo(loads[2].file)
    /\ appStore.image = loads[1].file
    /\ appStore.videoFile = 0

----------------------------------------------------------------------------
(* App.tsx, processVideoFrames: one call, stepped through its events.  Times *)
(* are counted in twentieths of a second, so that frame k is at time 2 * k   *)
(* and a duration may lie between two frame times.                           *)

\* the longest finite video.duration, in twentieths of a second; the frame
\* counters stop at this value too, which then stands for that many or more
MaxDuration == 12

\* video.duration: a finite time, or Infinity for a video whose end is not
\* known from its metadata
Durations ==
    { [inf |-> FALSE, t |-> t] : t \in 0..MaxDuration } \cup { [inf |-> TRUE, t |-> 0] }

\* time < duration, for the time of frame k
FrameTimeBefore(k, d) == d.inf \/ 2 * k < d.t

\* line 166: new Promise, the video element is created and its src is set
processVideoFrames ==
    /\ processing.phase = "idle"
    /\ \E d \in Durations :
          processing' = [processing EXCEPT !.phase = "loading", !.duration = d]
    /\ UNCHANGED << call, frameVars, knitVars, loads, appStore, localStorage, exporting >>

\* lines 187-195, processFrame(time) for the time of frame k: resolve(frames)
\* when time >= duration, else video.currentTime = time
processFrame(pr, k) ==
    IF ~FrameTimeBefore(k, pr.duration)
    THEN [pr EXCEPT !.phase = "settled",
                    !.resolved = @ + 1,
                    !.result = IF pr.resolved = 0 THEN pr.frames ELSE @]
    ELSE [pr EXCEPT !.phase = "seeking", !.seeking = k]

\* lines 184 and 254: onloadedmetadata reads the duration, installs
\* onseeked and calls processFrame(0)
onloadedmetadata ==
    /\ processing.phase = "loading"
    /\ processing' = processFrame(processing, 0)
    /\ UNCHANGED << call, frameVars, knitVars, loads, appStore, localStorage, exporting >>

\* lines 197-229: the seeked event; the handler crops the frame and waits
\* for createImageBitmap
onseeked ==
    /\ processing.phase = "seeking"
    /\ processing' = [processing EXCEPT !.phase = "bitmap"]
    /\ UNCHANGED << call, frameVars, knitVars, loads, appStore, localStorage, exporting >>

\* line 229 resolves; line 232: the handler waits for import('./lib/render')
FrameBitmapCreated ==
    /\ processing.phase = "bitmap"
    /\ processing' = [processing EXCEPT !.phase = "import"]
    /\ UNCHANGED << call, frameVars, knitVars, loads, appStore, localStorage, exporting >>

\* lines 232-246: renderKnitFrame, frames.push(frameCanvas), frameCount++,
\* and processFrame(nextTime) when nextTime < duration, else resolve(frames)
FrameRendered ==
    /\ processing.phase = "import"
    /\ LET pushed == [processing EXCEPT
                        !.frames = IF Len(@) < MaxDuration
                                   THEN Append(@, processing.seeking) ELSE @,
                        !.frameCount = IF @ < MaxDuration THEN @ + 1 ELSE @,
                        !.seeking = -1]
       IN  processing' =
             IF FrameTimeBefore(pushed.frameCount, pushed.duration)
             THEN processFrame(pushed, pushed.frameCount)
             ELSE [pushed EXCEPT !.phase = "settled",
                                 !.resolved = @ + 1,
                                 !.result = IF pushed.resolved = 0 THEN pushed.frames
                                            ELSE @]
    /\ UNCHANGED << call, frameVars, knitVars, loads, appStore, localStorage, exporting >>

ProcessNext ==
    \/ processVideoFrames
    \/ onloadedmetadata
    \/ onseeked
    \/ FrameBitmapCreated
    \/ FrameRendered

ProcessSpec == Init /\ [][ProcessNext]_vars

\* the metadata loads, every seek fires seeked, and every awaited promise
\* of the handler resolves
ProcessFairSpec ==
    /\ ProcessSpec
    /\ WF_vars(onloadedmetadata)
    /\ WF_vars(onseeked)
    /\ WF_vars(FrameBitmapCreated)
    /\ WF_vars(FrameRendered)

\* the frame indices k >= 0 with k / 10 < duration, in increasing order
RECURSIVE FramesUpTo(_)
FramesUpTo(n) == IF n = 0 THEN <<>> ELSE Append(FramesUpTo(n - 1), n - 1)

ExpectedFrames(d) == FramesUpTo(Cardinality({ k \in 0..MaxDuration : 2 * k < d.t }))

\* the promise has settled once, with one frame per expected index, and
\* the list has not grown since
SettledWithAllFrames ==
    /\ processing.phase = "settled"
    /\ processing.resolved = 1
    /\ processing.result = ExpectedFrames(processing.duration)
    /\ processing.frames = processing.result

\* C28: processVideoFrames terminates and settles its promise exactly once:
\* when every seek fires onseeked and no step fails it resolves with exactly
\* one rendered frame for each integer k >= 0 with k / 10 < duration, in
\* increasing k, and with an empty list when duration <= 0; after it settles
\* no further frame is appended.
C28_TerminatesWithAllFrames ==
    /\ [](processing.phase = "settled" => SettledWithAllFrames)
    /\ [](processing.resolved <= 1)
    /\ (processing.phase = "loading") ~> (processing.phase = "settled")

\* C28 for a video whose duration is finite
C28_FiniteDurationTerminates ==
    /\ [](processing.phase = "settled" => SettledWithAllFrames)
    /\ [](processing.resolved <= 1)
    /\ (processing.phase = "loading" /\ ~processing.duration.inf)
          ~> (processing.phase = "settled")

\* a video of 0.55 s has resolved with its six frames
C28_FiniteWitness ==
    /\ SettledWithAllFrames
    /\ processing.duration = [inf |-> FALSE, t |-> 11]
    /\ processing.result = <<0, 1, 2, 3, 4, 5>>

\* the duration is Infinity and the frame list keeps growing
C28_UnboundedFrames ==
    /\ processing.duration.inf
    /\ Len(processing.frames) = MaxDuration
    /\ processing.phase = "seeking"
    /\ processing.resolved = 0

----------------------------------------------------------------------------
(* lib/export.ts, exportMP4: the frames are numbered 0..frames-1 *)

\* the longest frame list passed to exportMP4
MaxExportFrames == 14

\* variant: the recorder is stopped when the last frame is still to be drawn
drawNextFrameStopsEarly(ex) ==
    IF ex.frameIndex + 1 >= ex.frames
    THEN [ex EXCEPT !.phase = "stopping", !.recorder = "inactive",
                    !.stops = @ + 1, !.stoppedAfter = Len(ex.drawn)]
    ELSE [ex EXCEPT !.phase = "drawing",
                    !.drawn = Append(@, ex.frameIndex),
                    !.frameIndex = @ + 1]

\* lines 182-194, drawNextFrame: mediaRecorder.stop() when frameIndex has
\* reached frames.length, else drawImage(frames[frameIndex]), frameIndex++
\* and setTimeout(drawNextFrame, frameInterval)
drawNextFrame(ex) ==
    IF ex.frameIndex >= ex.frames
    THEN [ex EXCEPT !.phase = "stopping", !.recorder = "inactive",
                    !.stops = @ + 1, !.stoppedAfter = Len(ex.drawn)]
    ELSE [ex EXCEPT !.phase = "drawing",
                    !.drawn = Append(@, ex.frameIndex),
                    !.frameIndex = @ + 1]

\* lines 114-197: the call creates the canvas and the recorder, calls
\* mediaRecorder.start() and then drawNextFrame()
exportMP4 ==
    /\ exporting.phase = "idle"
    /\ \E n \in 0..MaxExportFrames :
          exporting' = drawNextFrame([exporting EXCEPT !.frames = n,
                                                       !.recorder = "recording"])
    /\ UNCHANGED << call, frameVars, knitVars, loads, appStore, localStorage, processing >>

\* the timer of line 193 fires
drawNextFrameTimer ==
    /\ exporting.phase = "drawing"
    /\ exporting' = drawNextFrame(exporting)
    /\ UNCHANGED << call, frameVars, knitVars, loads, appStore, localStorage, processing >>

\* lines 161-172, mediaRecorder.onstop: the stop event of the stopped
\* recorder; the blob is downloaded and resolve() is called
onstop ==
    /\ exporting.phase = "stopping"
    /\ exporting' = [exporting EXCEPT !.phase = "resolved", !.resolved = @ + 1]
    /\ UNCHANGED << call, frameVars, knitVars, loads, appStore, localStorage, processing >>

ExportNext ==
    \/ exportMP4
    \/ drawNextFrameTimer
    \/ onstop

ExportSpec == Init /\ [][ExportNext]_vars

\* timers fire and the recorder delivers its stop event
ExportFairSpec ==
    /\ ExportSpec
    /\ WF_vars(drawNextFrameTimer)
    /\ WF_vars(onstop)

\* C29: exportMP4 draws the frames in index order, each exactly once, calls
\* mediaRecorder.stop() exactly once and only after the last frame has been
\* drawn, and its promise resolves only after the recorder's stop event;
\* with an empty frame list it stops without drawing.
C29_ExportDrawsThenStops ==
    /\ [](exporting.drawn = FramesUpTo(Len(exporting.drawn)))
    /\ [](Len(exporting.drawn) <= exporting.frames)
    /\ [](exporting.stops <= 1)
    /\ [](exporting.stops = 1 =>
            /\ exporting.stoppedAfter = exporting.frames
            /\ exporting.drawn = FramesUpTo(exporting.frames))
    /\ [](exporting.resolved <= exporting.stops)
    /\ [](exporting.resolved = 1 => exporting.phase = "resolved")
    /\ [][exporting'.resolved # exporting.resolved => exporting.phase = "stopping"]_vars
    /\ [][exporting'.stops # exporting.stops =>
              exporting'.drawn = exporting.drawn]_vars
    /\ (exporting.recorder = "recording") ~> (exporting.stops = 1)
    /\ (exporting.stops = 1) ~> (exporting.resolved = 1)

\* three frames were drawn, the recorder was stopped and the promise resolved
C29_Witness ==
    /\ exporting.phase = "resolved"
    /\ exporting.frames = 3
    /\ exporting.drawn = <<0, 1, 2>>
    /\ exporting.stops = 1
    /\ exporting.resolved = 1

\* an empty list: stopped and resolved with nothing drawn
C29_EmptyListWitness ==
    /\ exporting.phase = "resolved"
    /\ exporting.frames = 0
    /\ exporting.drawn = <<>>
    /\ exporting.stops = 1

----------------------------------------------------------------------------
(* state/useKnitStore.ts: loadParams, saveParams, updateParam, applyPreset.  *)
(* Params objects have identity: appStore.objects[1] is DEFAULT_PARAMS,      *)
(* [2..4] are the members of PRESETS, and [5] is the object that the store   *)
(* made last (the ones it made before are garbage).  A JSON text is the      *)
(* record of the texts of its members.                                       *)

\* the largest number a control passes: saturation 2, in percent
MaxParamValue == 200

ParamKeys == DOMAIN DEFAULT_PARAMS

\* the values the controls pass to updateParam (App.tsx 382-490), numbers
\* in percent
ControlValues(key) ==
    CASE key = "stitchPx" -> {8, 50}
      [] key = "paletteMix" -> {0, 100}
      [] key = "dither" -> {0, 100}
      [] key = "contrast" -> {50, 150}
      [] key = "saturation" -> {0, MaxParamValue}
      [] key = "edgeCrispness" -> {0, 100}
      [] key = "showGridLines" -> {TRUE, FALSE}

PresetNames == DOMAIN PRESETS

\* where PRESETS[preset] is in appStore.objects
PresetRef(preset) ==
    CASE preset = "classic" -> 2
      [] preset = "airy" -> 3
      [] preset = "quilted" -> 4

\* JSON.stringify of a params object: each member as its text
JSONstringify(o) == [ k \in DOMAIN o |-> ToString(o[k]) ]

\* JSON.parse of one member
ParseMember(k, text) ==
    IF k = "showGridLines" THEN text = "TRUE"
    ELSE CHOOSE n \in 0..MaxParamValue : ToString(n) = text

\* JSON.parse throws on a text that is no JSON
IsJSON(item) == "invalid" \notin DOMAIN item

JSONparse(item) == [ k \in DOMAIN item |-> ParseMember(k, item[k]) ]

\* { ...a, ...b }
Spread(a, b) ==
    [ k \in DOMAIN a \cup DOMAIN b |-> IF k \in DOMAIN b THEN b[k] ELSE a[k] ]

\* the store refers to a new object
WithNewParams(st, o) ==
    [st EXCEPT !.objects = SubSeq(st.objects, 1, Len(SharedObjects)) \o <<o>>,
               !.params = Len(SharedObjects) + 1]

CurrentParams == appStore.objects[appStore.params]

\* the items an earlier session may have left under 'lidl-knit-params'
EarlierItems ==
    { JSONstringify(PRESETS.airy),
      JSONstringify([stitchPx |-> 50]),
      [invalid |-> "{"] }

\* an earlier session, or the user, has stored an item
EarlierSession ==
    /\ ~appStore.created
    /\ localStorage = NoItem
    /\ \E item \in EarlierItems : localStorage' = item
    /\ UNCHANGED << call, frameVars, knitVars, loads, appStore, processing, exporting >>

\* lines 198-210, loadParams, as called by create (line 229):
\* { ...DEFAULT_PARAMS, ...parsed } of a stored item that parses, else
\* DEFAULT_PARAMS itself
loadParams ==
    /\ ~appStore.created
    /\ appStore' =
          IF localStorage # NoItem /\ IsJSON(localStorage)
          THEN [WithNewParams(appStore, Spread(DEFAULT_PARAMS, JSONparse(localStorage)))
                  EXCEPT !.created = TRUE]
          ELSE [appStore EXCEPT !.created = TRUE, !.params = 1]
    /\ UNCHANGED << call, frameVars, knitVars, loads, localStorage, processing, exporting >>

\* variant: the member is assigned on the store's params object
updateParamInPlace(st, key, value) ==
    [st EXCEPT !.objects[st.params][key] = value]

\* lines 241 and 243-246: newParams = { ...state.params, [key]: value }
updateParamState(st, key, value) ==
    WithNewParams(st, Spread(st.objects[st.params], [ k \in {key} |-> value ]))

\* lines 239-247, updateParam(key, value), with saveParams(newParams)
UpdateParam(key, value) ==
    /\ appStore.created
    /\ appStore' = updateParamState(appStore, key, value)
    /\ localStorage' = JSONstringify(appStore'.objects[appStore'.params])
    /\ UNCHANGED << call, frameVars, knitVars, loads, processing, exporting >>

\* a control changes: App.tsx 382-490
UpdateParamCall ==
    \E key \in ParamKeys : \E value \in ControlValues(key) : UpdateParam(key, value)

\* lines 249-257, applyPreset(preset): newParams = { ...PRESETS[preset] },
\* saveParams(newParams)
ApplyPreset(preset) ==
    /\ appStore.created
    /\ appStore' = WithNewParams(appStore, Spread(appStore.objects[PresetRef(preset)],
                                                 [ k \in {} |-> 0 ]))
    /\ localStorage' = JSONstringify(appStore'.objects[appStore'.params])
    /\ UNCHANGED << call, frameVars, knitVars, loads, processing, exporting >>

\* a preset button is clicked: App.tsx 502-514
ApplyPresetCall == \E preset \in PresetNames : ApplyPreset(preset)

StoreNext ==
    \/ EarlierSession
    \/ loadParams
    \/ UpdateParamCall
    \/ ApplyPresetCall

StoreSpec == Init /\ [][StoreNext]_vars

\* DEFAULT_PARAMS and PRESETS are as types.ts defines them
SharedObjectsIntact ==
    SubSeq(appStore.objects, 1, Len(SharedObjects)) = SharedObjects

\* C30: after any sequence of updateParam and applyPreset calls (storage
\* writes succeeding) the params persisted under 'lidl-knit-params' equal
\* the store's current params; updateParam changes only the named key, and
\* neither operation ever modifies the shared DEFAULT_PARAMS or PRESETS
\* objects.
C30_PersistedParamsCurrent ==
    /\ [][(UpdateParamCall \/ ApplyPresetCall) =>
            /\ localStorage' = JSONstringify(CurrentParams')
            /\ IsJSON(localStorage')
            /\ JSONparse(localStorage') = CurrentParams']_vars
    /\ [][\A key \in ParamKeys : \A value \in ControlValues(key) :
            UpdateParam(key, value) =>
                /\ CurrentParams'[key] = value
                /\ \A other \in ParamKeys \ {key} :
                      CurrentParams'[other] = CurrentParams[other]]_vars
    /\ [][\A preset \in PresetNames :
            ApplyPreset(preset) => CurrentParams' = PRESETS[preset]]_vars
    /\ [](SharedObjectsIntact)

\* the quilted preset was applied and then the contrast control moved; the
\* store holds an object of its own and the item is its text
C30_Witness ==
    /\ appStore.created
    /\ appStore.params = Len(SharedObjects) + 1
    /\ CurrentParams = [PRESETS.quilted EXCEPT !.contrast = 150]
    /\ localStorage = JSONstringify(CurrentParams)
    /\ SharedObjectsIntact

\* no item was stored: the store's params is DEFAULT_PARAMS itself
C30_StoreRefersToDefaults ==
    /\ appStore.created
    /\ appStore.params = 1
    /\ localStorage = NoItem

====
